---- MODULE Spec2Model ----
(***************************************************************************)
(* Cherry OpenFlow controller: the OpenFlow 1.3 handshake state machine of *)
(* cherryd/internal/session/of13_controller.go, for one switch connection. *)
(*                                                                         *)
(* Spec     the controller talking to a switch that honours barriers and   *)
(*          answers over a FIFO connection.                                *)
(* SpecAny  the handlers of OF13Controller called with any message, in any *)
(*          order, as the transport layer may call them.                   *)
(* SpecArp  the ProxyARP application of                                    *)
(*          cherryd/northbound/app/proxyarp/arp.go as a stage of the       *)
(*          northbound pipeline, called with any frame and any device.     *)
(***************************************************************************)
EXTENDS Integers, Sequences, FiniteSets, TLC

VARIABLES
    wire,       \* messages the trans.Writer has written that the peer has not taken yet
    hello,      \* position and outcome of OnHello on this connection
    device,     \* r.device: id, flow table ID and port set
    last,       \* the handler call made last: name, input, failing call, messages
                \* written, error returned, device before the call
    ran,        \* which of OnHello, OnDescReply, OnPortDescReply have returned
    instMode,   \* behaviour of openflow.Instruction setters on a reused object
    updateMode, \* behaviour of Device.UpdatePort for a port that is not in the set
    swDesc,     \* the switch's description (manufacturer, hardware)
    swPorts,    \* the switch's ports, as its port description reply lists them
    swHandled,  \* kinds of command the switch has handled
    swFlows,    \* flow entries in the switch, each stale or installed on this connection
    swErased,   \* flow entries of this connection that a remove-all command erased
    replies,    \* messages from the switch not yet handled by the controller, FIFO
    nStatus,    \* port status notifications emitted by the switch
    arpDb,      \* r.db of ProxyARP: the directory, protocol address -> MAC
    arpCall     \* the ProxyARP event handler call made last: its arguments, what
                \* it did in order (lookups, sends, forwards) and what it returned

vars == <<wire, hello, device, last, ran, instMode, updateMode,
          swDesc, swPorts, swHandled, swFlows, swErased, replies, nStatus,
          arpDb, arpCall>>

arpVars == <<arpDb, arpCall>>

swVars == <<swDesc, swPorts, swHandled, swFlows, swErased, replies, nStatus>>

(***************************************************************************)
(* Bounds                                                                  *)
(***************************************************************************)
MaxStatus == 1      \* port status notifications per behaviour of Spec
MaxFailAt == 11     \* the failing fallible call of a handler is drawn from 0..MaxFailAt
MaxPorts == 2       \* ports in a port description reply of SpecAny

(***************************************************************************)
(* Strings are sequences of characters, as strings.HasPrefix and           *)
(* strings.Contains see them.                                              *)
(***************************************************************************)
HasPrefix(s, prefix) ==
    /\ Len(s) >= Len(prefix)
    /\ SubSeq(s, 1, Len(prefix)) = prefix

Contains(s, substr) ==
    \E i \in 0..(Len(s) - Len(substr)) : SubSeq(s, i + 1, i + Len(substr)) = substr

StrHP == <<"H", "P">>
Str2920 == <<"2", "9", "2", "0", "-", "2", "4", "G">>
StrAS4600 == <<"A", "S", "4", "6", "0", "0", "-", "5", "4", "T">>

isHP2920_24G(msg) ==
    HasPrefix(msg.manufacturer, StrHP) /\ HasPrefix(msg.hardware, Str2920)

isAS460054_T(msg) ==
    Contains(msg.hardware, StrAS4600)

(***************************************************************************)
(* OnHello: nine sends, each of which may fail.                            *)
(***************************************************************************)
HelloSteps == 9

\* Mutant: the flow flush and the description request change places.
HelloStepMsg_Swapped(k) ==
    CASE k = 1 -> [type |-> "HELLO"]
      [] k = 2 -> [type |-> "SET_CONFIG"]
      [] k = 3 -> [type |-> "FEATURES_REQUEST"]
      [] k = 4 -> [type |-> "BARRIER_REQUEST"]
      [] k = 5 -> [type |-> "DESCRIPTION_REQUEST"]
      [] k = 6 -> [type |-> "BARRIER_REQUEST"]
      [] k = 7 -> [type |-> "FLOW_MOD_REMOVE_ALL"]
      [] k = 8 -> [type |-> "BARRIER_REQUEST"]
      [] k = 9 -> [type |-> "PORT_DESCRIPTION_REQUEST"]

\* Mutant: sendBarrierRequest sends an echo request instead of a barrier.
HelloStepMsg_NoBarriers(k) ==
    CASE k = 1 -> [type |-> "HELLO"]
      [] k = 2 -> [type |-> "SET_CONFIG"]
      [] k = 3 -> [type |-> "FEATURES_REQUEST"]
      [] k = 4 -> [type |-> "ECHO_REQUEST"]
      [] k = 5 -> [type |-> "FLOW_MOD_REMOVE_ALL"]
      [] k = 6 -> [type |-> "ECHO_REQUEST"]
      [] k = 7 -> [type |-> "DESCRIPTION_REQUEST"]
      [] k = 8 -> [type |-> "ECHO_REQUEST"]
      [] k = 9 -> [type |-> "PORT_DESCRIPTION_REQUEST"]

\* Mutant: the barrier between the two description requests is left out
\* (a second SET_CONFIG keeps the step count).
HelloStepMsg_NoThirdBarrier(k) ==
    CASE k = 1 -> [type |-> "HELLO"]
      [] k = 2 -> [type |-> "SET_CONFIG"]
      [] k = 3 -> [type |-> "FEATURES_REQUEST"]
      [] k = 4 -> [type |-> "BARRIER_REQUEST"]
      [] k = 5 -> [type |-> "FLOW_MOD_REMOVE_ALL"]
      [] k = 6 -> [type |-> "BARRIER_REQUEST"]
      [] k = 7 -> [type |-> "DESCRIPTION_REQUEST"]
      [] k = 8 -> [type |-> "SET_CONFIG"]
      [] k = 9 -> [type |-> "PORT_DESCRIPTION_REQUEST"]

HelloStepMsg(k) ==
    CASE k = 1 -> [type |-> "HELLO"]
      [] k = 2 -> [type |-> "SET_CONFIG"]
      [] k = 3 -> [type |-> "FEATURES_REQUEST"]
      [] k = 4 -> [type |-> "BARRIER_REQUEST"]
      [] k = 5 -> [type |-> "FLOW_MOD_REMOVE_ALL"]
      [] k = 6 -> [type |-> "BARRIER_REQUEST"]
      [] k = 7 -> [type |-> "DESCRIPTION_REQUEST"]
      [] k = 8 -> [type |-> "BARRIER_REQUEST"]
      [] k = 9 -> [type |-> "PORT_DESCRIPTION_REQUEST"]

HelloErrText(k) ==
    CASE k = 1 -> "failed to send HELLO"
      [] k = 2 -> "failed to send SET_CONFIG"
      [] k = 3 -> "failed to send FEATURE_REQUEST"
      [] k = 4 -> "failed to send BARRIER_REQUEST"
      [] k = 5 -> "failed to send FLOW_MOD to remove all flows"
      [] k = 6 -> "failed to send BARRIER_REQUEST"
      [] k = 7 -> "failed to send DESCRIPTION_REQUEST"
      [] k = 8 -> "failed to send BARRIER_REQUEST"
      [] k = 9 -> "failed to send DESCRIPTION_REQUEST"

\* Mutant: a failed send is reported only after the next step was sent too.
OnHelloSend_FallsThrough(fail) ==
    /\ hello.state = "running"
    /\ LET k == hello.step + 1
           next == IF k < HelloSteps THEN <<HelloStepMsg(k + 1)>> ELSE <<>> IN
       IF fail
       THEN /\ hello' = [hello EXCEPT !.state = "err", !.err = HelloErrText(k), !.failed = k,
                                      !.written = @ \o next]
            /\ wire' = wire \o next
            /\ ran' = ran \cup {"OnHello"}
       ELSE /\ hello' = [hello EXCEPT !.step = k,
                                      !.written = Append(@, HelloStepMsg(k)),
                                      !.state = IF k = HelloSteps THEN "ok" ELSE "running"]
            /\ wire' = Append(wire, HelloStepMsg(k))
            /\ ran' = IF k = HelloSteps THEN ran \cup {"OnHello"} ELSE ran
    /\ UNCHANGED <<device, last, instMode, updateMode>>

\* One `if err := sendX(f, w); err != nil { return ... }` of OnHello.
OnHelloSend(fail) ==
    /\ hello.state = "running"
    /\ LET k == hello.step + 1 IN
       IF fail
       THEN /\ hello' = [hello EXCEPT !.state = "err", !.err = HelloErrText(k), !.failed = k]
            /\ wire' = wire
            /\ ran' = ran \cup {"OnHello"}
       ELSE /\ hello' = [hello EXCEPT !.step = k,
                                      !.written = Append(@, HelloStepMsg(k)),
                                      !.state = IF k = HelloSteps THEN "ok" ELSE "running"]
            /\ wire' = Append(wire, HelloStepMsg(k))
            /\ ran' = IF k = HelloSteps THEN ran \cup {"OnHello"} ELSE ran
    /\ UNCHANGED <<device, last, instMode, updateMode>>

(***************************************************************************)
(* Message construction.  A uint64 is the set of its set bits.  The        *)
(* factory's objects are mutable: one Instruction is reused for the three  *)
(* entries of the HP 2920 profile, and a setter either replaces what the   *)
(* object held ("replace") or adds to it ("accumulate"); trans.Writer      *)
(* serialises the message when Write is called.                            *)
(***************************************************************************)
ShiftLeft(bits, n) == {b + n : b \in bits} \cap (0..63)

NewMatch == {}      \* no field constrained: wildcard

NewInstruction == [goto |-> {}, apply |-> {}]

GotoTable(inst, tableID) ==
    IF instMode = "replace"
    THEN [goto |-> {tableID}, apply |-> {}]
    ELSE [inst EXCEPT !.goto = {tableID}]

ApplyAction(inst, action) ==
    IF instMode = "replace"
    THEN [goto |-> {}, apply |-> {action}]
    ELSE [inst EXCEPT !.apply = {action}]

\* openflow.NewOutPort() followed by SetController(), given to action.SetOutPort
OutputToController == [output |-> "CONTROLLER"]

\* Mutant: the cookie is 0x1 << 62.
setTableMiss_Cookie62(n, failAt, tableID, inst) ==
    IF failAt = n + 1 THEN [err |-> "NewMatch", out |-> <<>>]
    ELSE IF failAt = n + 2 THEN [err |-> "NewFlowMod", out |-> <<>>]
    ELSE LET msg == [type        |-> "FLOW_MOD",
                     command     |-> "FlowAdd",
                     cookie      |-> ShiftLeft({0}, 62),
                     tableID     |-> tableID,
                     idleTimeout |-> 0,
                     hardTimeout |-> 0,
                     priority    |-> 0,
                     match       |-> NewMatch,
                     instruction |-> inst]
         IN IF failAt = n + 3
            THEN [err |-> "Write", out |-> <<>>]
            ELSE [err |-> "", out |-> <<msg>>]

\* The n fallible calls made so far have succeeded; call number failAt fails.
\* Fallible calls here: NewMatch, NewFlowMod, Write.
setTableMiss(n, failAt, tableID, inst) ==
    IF failAt = n + 1 THEN [err |-> "NewMatch", out |-> <<>>]
    ELSE IF failAt = n + 2 THEN [err |-> "NewFlowMod", out |-> <<>>]
    ELSE LET msg == [type        |-> "FLOW_MOD",
                     command     |-> "FlowAdd",
                     cookie      |-> ShiftLeft({0}, 63),
                     tableID     |-> tableID,
                     idleTimeout |-> 0,
                     hardTimeout |-> 0,
                     priority    |-> 0,
                     match       |-> NewMatch,
                     instruction |-> inst]
         IN IF failAt = n + 3
            THEN [err |-> "Write", out |-> <<>>]
            ELSE [err |-> "", out |-> <<msg>>]

ErrTableMiss == "failed to set table_miss flow entry"

\* Mutant: SetFlowTableID(200) is called before the table-200 entry is written.
setHP2920TableMiss_EarlyTableID(failAt) ==
    IF failAt = 1 THEN [err |-> "NewInstruction", out |-> <<>>, setTable |-> {}]
    ELSE
    LET inst1 == GotoTable(NewInstruction, 100)
        r1    == setTableMiss(1, failAt, 0, inst1)
        inst2 == GotoTable(inst1, 200)
        r2    == setTableMiss(4, failAt, 100, inst2)
        inst3 == ApplyAction(inst2, OutputToController)
        r3    == setTableMiss(8, failAt, 200, inst3)
    IN  IF r1.err # "" THEN [err |-> ErrTableMiss, out |-> <<>>, setTable |-> {}]
        ELSE IF r2.err # "" THEN [err |-> ErrTableMiss, out |-> r1.out, setTable |-> {}]
        ELSE IF failAt = 8 THEN [err |-> "NewAction", out |-> r1.out \o r2.out, setTable |-> {}]
        ELSE IF r3.err # ""
             THEN [err |-> ErrTableMiss, out |-> r1.out \o r2.out, setTable |-> {200}]
             ELSE [err |-> "", out |-> r1.out \o r2.out \o r3.out, setTable |-> {200}]

\* Mutant: the device's flow table ID is set to the hardware table 100.
setHP2920TableMiss_Table100(failAt) ==
    IF failAt = 1 THEN [err |-> "NewInstruction", out |-> <<>>, setTable |-> {}]
    ELSE
    LET inst1 == GotoTable(NewInstruction, 100)
        r1    == setTableMiss(1, failAt, 0, inst1)
        inst2 == GotoTable(inst1, 200)
        r2    == setTableMiss(4, failAt, 100, inst2)
        inst3 == ApplyAction(inst2, OutputToController)
        r3    == setTableMiss(8, failAt, 200, inst3)
    IN  IF r1.err # "" THEN [err |-> ErrTableMiss, out |-> <<>>, setTable |-> {}]
        ELSE IF r2.err # "" THEN [err |-> ErrTableMiss, out |-> r1.out, setTable |-> {}]
        ELSE IF failAt = 8 THEN [err |-> "NewAction", out |-> r1.out \o r2.out, setTable |-> {}]
        ELSE IF r3.err # ""
             THEN [err |-> ErrTableMiss, out |-> r1.out \o r2.out, setTable |-> {}]
             ELSE [err |-> "", out |-> r1.out \o r2.out \o r3.out, setTable |-> {100}]

\* Result of a profile: the error returned, the messages written, and the
\* argument of device.SetFlowTableID when it was called.
setHP2920TableMiss(failAt) ==
    IF failAt = 1 THEN [err |-> "NewInstruction", out |-> <<>>, setTable |-> {}]
    ELSE
    LET inst1 == GotoTable(NewInstruction, 100)
        r1    == setTableMiss(1, failAt, 0, inst1)
        inst2 == GotoTable(inst1, 200)
        r2    == setTableMiss(4, failAt, 100, inst2)
        inst3 == ApplyAction(inst2, OutputToController)
        r3    == setTableMiss(8, failAt, 200, inst3)
    IN  IF r1.err # "" THEN [err |-> ErrTableMiss, out |-> <<>>, setTable |-> {}]
        ELSE IF r2.err # "" THEN [err |-> ErrTableMiss, out |-> r1.out, setTable |-> {}]
        ELSE IF failAt = 8 THEN [err |-> "NewAction", out |-> r1.out \o r2.out, setTable |-> {}]
        ELSE IF r3.err # ""
             THEN [err |-> ErrTableMiss, out |-> r1.out \o r2.out, setTable |-> {}]
             ELSE [err |-> "", out |-> r1.out \o r2.out \o r3.out, setTable |-> {200}]

\* Mutant: the AS4600 profile installs the table-0 entry like the default one.
setAS4600TableMiss_Installs(failAt) ==
    LET r == setTableMiss(2, failAt, 0, ApplyAction(NewInstruction, OutputToController))
    IN  IF r.err # ""
        THEN [err |-> ErrTableMiss, out |-> <<>>, setTable |-> {}]
        ELSE [err |-> "", out |-> r.out, setTable |-> {0}]

setAS4600TableMiss(failAt) ==
    [err |-> "", out |-> <<>>, setTable |-> {}]

\* Mutant: the default profile does not call SetFlowTableID.
setDefaultTableMiss_NoTableID(failAt) ==
    IF failAt = 1 THEN [err |-> "NewInstruction", out |-> <<>>, setTable |-> {}]
    ELSE IF failAt = 2 THEN [err |-> "NewAction", out |-> <<>>, setTable |-> {}]
    ELSE
    LET inst == ApplyAction(NewInstruction, OutputToController)
        r    == setTableMiss(2, failAt, 0, inst)
    IN  IF r.err # ""
        THEN [err |-> ErrTableMiss, out |-> <<>>, setTable |-> {}]
        ELSE [err |-> "", out |-> r.out, setTable |-> {}]

setDefaultTableMiss(failAt) ==
    IF failAt = 1 THEN [err |-> "NewInstruction", out |-> <<>>, setTable |-> {}]
    ELSE IF failAt = 2 THEN [err |-> "NewAction", out |-> <<>>, setTable |-> {}]
    ELSE
    LET inst == ApplyAction(NewInstruction, OutputToController)
        r    == setTableMiss(2, failAt, 0, inst)
    IN  IF r.err # ""
        THEN [err |-> ErrTableMiss, out |-> <<>>, setTable |-> {}]
        ELSE [err |-> "", out |-> r.out, setTable |-> {0}]

Ran(profile, r) ==
    [err |-> r.err, out |-> r.out, setTable |-> r.setTable, profile |-> profile]

\* Mutant: the AS4600 case is tested before the HP 2920 case.
DescReplyResult_AS4600First(v, failAt) ==
    IF isAS460054_T(v) THEN Ran("AS4600", setAS4600TableMiss(failAt))
    ELSE IF isHP2920_24G(v) THEN Ran("HP2920", setHP2920TableMiss(failAt))
    ELSE Ran("Default", setDefaultTableMiss(failAt))

\* The switch statement of OnDescReply.
DescReplyResult(v, failAt) ==
    IF isHP2920_24G(v) THEN Ran("HP2920", setHP2920TableMiss(failAt))
    ELSE IF isAS460054_T(v) THEN Ran("AS4600", setAS4600TableMiss(failAt))
    ELSE Ran("Default", setDefaultTableMiss(failAt))

NoCall ==
    [handler |-> "none", input |-> <<>>, failing |-> {}, written |-> <<>>, err |-> "",
     profile |-> "none", before |-> device]

Called(handler, input, failing, written, err) ==
    [handler |-> handler, input |-> input, failing |-> failing,
     written |-> written, err |-> err, profile |-> "none", before |-> device]

SetFlowTableID(d, tables) ==
    IF tables = {} THEN d ELSE [d EXCEPT !.flowTableID = CHOOSE t \in tables : TRUE]

OnDescReply(v, failAt) ==
    /\ hello.state # "running"
    /\ LET r == DescReplyResult(v, failAt) IN
       /\ wire' = wire \o r.out
       /\ device' = SetFlowTableID(device, r.setTable)
       /\ last' = [Called("OnDescReply", v, failAt, r.out, r.err) EXCEPT !.profile = r.profile]
    /\ ran' = ran \cup {"OnDescReply"}
    /\ UNCHANGED <<hello, instMode, updateMode>>

(***************************************************************************)
(* Ports.  A port number is a uint32, kept as its two 16-bit halves.       *)
(***************************************************************************)
PortNum(hi, lo) == [hi |-> hi, lo |-> lo]

\* Mutant: >= in place of >.
PortGT_OrEqual(a, b) == a.hi > b.hi \/ (a.hi = b.hi /\ a.lo >= b.lo)

PortGT(a, b) == a.hi > b.hi \/ (a.hi = b.hi /\ a.lo > b.lo)

OFPP_MAX == PortNum(65535, 65280)       \* 0xffffff00

Port(number, portDown, linkDown) ==
    [number |-> number, portDown |-> portDown, linkDown |-> linkDown]

\* r.ports[num] = p
AddPort(ports, num, p) ==
    {q \in ports : q.number # num} \cup {p}

UpdatePort(ports, num, p) ==
    IF \E q \in ports : q.number = num
    THEN {q \in ports : q.number # num} \cup {p}
    ELSE IF updateMode = "create" THEN ports \cup {p} ELSE ports

LLDP(deviceID, p) ==
    [type |-> "PACKET_OUT", payload |-> "LLDP", deviceID |-> deviceID, port |-> p.number]

\* Mutant: a failed sendLLDP ends the loop.
RECURSIVE PortDescLoop_AbortOnFail(_, _, _, _, _)
PortDescLoop_AbortOnFail(ports, i, failing, devPorts, out) ==
    IF i > Len(ports) THEN [ports |-> devPorts, out |-> out]
    ELSE LET p == ports[i] IN
         IF PortGT(p.number, OFPP_MAX)
         THEN PortDescLoop_AbortOnFail(ports, i + 1, failing, devPorts, out)
         ELSE LET added == AddPort(devPorts, p.number, p)
                  up    == ~p.portDown /\ ~p.linkDown
              IN IF up /\ i \in failing
                 THEN [ports |-> added, out |-> out]
                 ELSE PortDescLoop_AbortOnFail(ports, i + 1, failing, added,
                          IF up THEN Append(out, LLDP(device.id, p)) ELSE out)

\* The loop of OnPortDescReply from element i on; failing is the set of
\* positions whose sendLLDP fails.
RECURSIVE PortDescLoop(_, _, _, _, _)
PortDescLoop(ports, i, failing, devPorts, out) ==
    IF i > Len(ports) THEN [ports |-> devPorts, out |-> out]
    ELSE LET p == ports[i] IN
         IF PortGT(p.number, OFPP_MAX)
         THEN PortDescLoop(ports, i + 1, failing, devPorts, out)
         ELSE LET added == AddPort(devPorts, p.number, p)
                  sent  == IF ~p.portDown /\ ~p.linkDown /\ i \notin failing
                           THEN Append(out, LLDP(device.id, p))
                           ELSE out
              IN PortDescLoop(ports, i + 1, failing, added, sent)

OnPortDescReply(v, failing) ==
    /\ hello.state # "running"
    /\ LET r == PortDescLoop(v.ports, 1, failing, device.ports, <<>>) IN
       /\ wire' = wire \o r.out
       /\ device' = [device EXCEPT !.ports = r.ports]
       /\ last' = Called("OnPortDescReply", v, failing, r.out, "")
    /\ ran' = ran \cup {"OnPortDescReply"}
    /\ UNCHANGED <<hello, instMode, updateMode>>

OnPortStatus(v) ==
    /\ hello.state # "running"
    /\ LET p == v.port IN
       device' = IF PortGT(p.number, OFPP_MAX)
                 THEN device
                 ELSE [device EXCEPT !.ports = UpdatePort(@, p.number, p)]
    /\ last' = Called("OnPortStatus", v, {}, <<>>, "")
    /\ UNCHANGED <<wire, hello, ran, instMode, updateMode>>

\* OnError, OnFeaturesReply, OnGetConfigReply, OnFlowRemoved, OnPacketIn
OnNoop(handler, v) ==
    /\ hello.state # "running"
    /\ last' = Called(handler, v, {}, <<>>, "")
    /\ UNCHANGED <<wire, hello, device, ran, instMode, updateMode>>

\* The transport calls OnHello for the switch's HELLO.
OnHello ==
    /\ hello.state = "idle"
    /\ hello' = [hello EXCEPT !.state = "running"]
    /\ last' = Called("OnHello", [type |-> "HELLO"], {}, <<>>, "")
    /\ UNCHANGED <<wire, device, ran, instMode, updateMode>>

(***************************************************************************)
(* Inputs                                                                  *)
(***************************************************************************)
Manufacturers ==
    { StrHP, StrHP \o <<"x">>, <<"x">> \o StrHP, <<"H">> }

Hardwares ==
    { Str2920 \o <<"x">>,
      <<"x">> \o Str2920,
      SubSeq(Str2920, 1, 7),
      <<"x">> \o StrAS4600 \o <<"x">>,
      SubSeq(StrAS4600, 1, 9),
      Str2920 \o StrAS4600 }

DescReply(manufacturer, hardware) ==
    [type |-> "DESC_REPLY", manufacturer |-> manufacturer, hardware |-> hardware]

DescReplies == { DescReply(m, h) : m \in Manufacturers, h \in Hardwares }

PortNumbers ==
    { PortNum(0, 1),            \* an ordinary port
      PortNum(1, 65535),        \* 0x0001ffff: low half above OFPP_MAX's, still in range
      OFPP_MAX,
      PortNum(65535, 65281) }   \* OFPP_MAX + 1

Ports ==
    { Port(n, FALSE, FALSE) : n \in PortNumbers }
        \cup { Port(PortNum(0, 1), TRUE, FALSE), Port(PortNum(1, 65535), FALSE, TRUE) }

PortLists == UNION { [1..n -> Ports] : n \in 0..MaxPorts }

PortDescReply(ports) == [type |-> "PORT_DESC_REPLY", ports |-> ports]

PortStatus(p) == [type |-> "PORT_STATUS", port |-> p]

\* Which sendLLDP calls of one reply fail: none, one of them, or all.
Failings(ports) ==
    {{}} \cup { {i} : i \in 1..Len(ports) } \cup { 1..Len(ports) }

NoopHandler(type) ==
    CASE type = "ERROR" -> "OnError"
      [] type = "FEATURES_REPLY" -> "OnFeaturesReply"
      [] type = "GET_CONFIG_REPLY" -> "OnGetConfigReply"
      [] type = "FLOW_REMOVED" -> "OnFlowRemoved"
      [] type = "PACKET_IN" -> "OnPacketIn"

NoopTypes == {"ERROR", "FEATURES_REPLY", "GET_CONFIG_REPLY", "FLOW_REMOVED", "PACKET_IN"}

DeviceID == "dpid-1"

InitController ==
    /\ wire = <<>>
    /\ hello = [state |-> "idle", step |-> 0, written |-> <<>>, err |-> "", failed |-> 0]
    /\ device = [id |-> DeviceID, flowTableID |-> 0, ports |-> {}]
    /\ last = [handler |-> "none", input |-> <<>>, failing |-> {}, written |-> <<>>,
               err |-> "", profile |-> "none",
               before |-> [id |-> DeviceID, flowTableID |-> 0, ports |-> {}]]
    /\ ran = {}
    /\ instMode \in {"replace", "accumulate"}
    /\ updateMode \in {"create", "ignore"}

(***************************************************************************)
(* ProxyARP (cherryd/northbound/app/proxyarp/arp.go).  Hardware and        *)
(* protocol addresses are tuples of bytes and frames are marshalled to     *)
(* tuples of bytes.  A handler returns [trace, ret]: what it did, in       *)
(* order, and the error it returned ("" for nil).  failAt numbers the      *)
(* fallible calls of one handler call (0: none fails); nextRet is what the *)
(* next stage of the pipeline returns when the event reaches it.           *)
(***************************************************************************)
ZeroMAC == <<0, 0, 0, 0, 0, 0>>

BroadcastMAC == <<255, 255, 255, 255, 255, 255>>

Uint16(n) == <<n \div 256, n % 256>>

\* protocol.ARP.MarshalBinary: Ethernet/IPv4 header, operation, then the
\* four addresses.
MarshalARP(v) ==
    <<0, 1, 8, 0, 6, 4>> \o Uint16(v.Operation) \o v.SHA \o v.SPA \o v.THA \o v.TPA

NoARP == [Operation |-> 0, SHA |-> <<>>, SPA |-> <<>>, THA |-> <<>>, TPA |-> <<>>]

\* protocol.ARP.UnmarshalBinary
UnmarshalARP(data) ==
    IF Len(data) < 28
    THEN [err |-> "invalid ARP packet length", arp |-> NoARP]
    ELSE [err |-> "",
          arp |-> [Operation |-> data[7] * 256 + data[8],
                   SHA |-> SubSeq(data, 9, 14),
                   SPA |-> SubSeq(data, 15, 18),
                   THA |-> SubSeq(data, 19, 24),
                   TPA |-> SubSeq(data, 25, 28)]]

\* protocol.Ethernet.MarshalBinary
MarshalEthernet(e) == e.DstMAC \o e.SrcMAC \o Uint16(e.Type) \o e.Payload

\* protocol.NewARPReply(sha, tha, spa, tpa)
NewARPReply(sha, tha, spa, tpa) ==
    [Operation |-> 2, SHA |-> sha, SPA |-> spa, THA |-> tha, TPA |-> tpa]

\* protocol.NewARPRequest(sha, spa, tpa)
NewARPRequest(sha, spa, tpa) ==
    [Operation |-> 1, SHA |-> sha, SPA |-> spa, THA |-> ZeroMAC, TPA |-> tpa]

\* openflow.InPort and openflow.OutPort
NewInPort == [kind |-> "none", value |-> PortNum(0, 0)]

NewOutPort == [kind |-> "flood", value |-> PortNum(0, 0)]

SetController(port) == [port EXCEPT !.kind = "controller"]

SetValue(port, n) == [kind |-> "port", value |-> n]

\* Entries of a trace.
Lookup(ip) == [kind |-> "lookup", ip |-> ip]

Sent(deviceID, msg) == [kind |-> "send", device |-> deviceID, msg |-> msg]

Forwarded(event, args) == [kind |-> "forward", event |-> event, args |-> args]

\* database.FindMAC of the directory db
FindMAC(db, ip, fails) ==
    IF fails THEN [mac |-> <<>>, ok |-> FALSE, err |-> "FindMAC", trace |-> <<Lookup(ip)>>]
    ELSE IF ip \in DOMAIN db
         THEN [mac |-> db[ip], ok |-> TRUE, err |-> "", trace |-> <<Lookup(ip)>>]
         ELSE [mac |-> <<>>, ok |-> FALSE, err |-> "", trace |-> <<Lookup(ip)>>]

\* app.BaseProcessor: the event goes to the next stage, whose result is
\* returned.
BaseOnPacketIn(finder, ingress, eth, nextRet) ==
    [trace |-> <<Forwarded("OnPacketIn", <<finder, ingress, eth>>)>>, ret |-> nextRet]

BaseOnDeviceUp(finder, dev, nextRet) ==
    [trace |-> <<Forwarded("OnDeviceUp", <<finder, dev>>)>>, ret |-> nextRet]

isARPAnnouncement(request) ==
    LET sameAddr   == request.SPA = request.TPA
        zeroTarget == request.THA = ZeroMAC
    IN  ~(~sameAddr \/ ~zeroTarget)

\* Mutant: any address the directory knows makes the announcement valid.
isValidARPAnnouncement_AnyKnown(db, request, failAt) ==
    LET f == FindMAC(db, request.SPA, failAt = 1)
    IN  IF f.err # "" THEN [valid |-> FALSE, err |-> f.err, trace |-> f.trace]
        ELSE IF ~f.ok THEN [valid |-> FALSE, err |-> "", trace |-> f.trace]
        ELSE [valid |-> TRUE, err |-> "", trace |-> f.trace]

\* Fallible call 1: FindMAC.
isValidARPAnnouncement(db, request, failAt) ==
    LET f == FindMAC(db, request.SPA, failAt = 1)
    IN  IF f.err # "" THEN [valid |-> FALSE, err |-> f.err, trace |-> f.trace]
        ELSE IF ~f.ok \/ f.mac # request.SHA
             THEN [valid |-> FALSE, err |-> "", trace |-> f.trace]
        ELSE [valid |-> TRUE, err |-> "", trace |-> f.trace]

\* Mutant: sender and target hardware addresses of the reply are exchanged.
makeARPReply_Swapped(request, mac, n, failAt) ==
    LET v == NewARPReply(request.SHA, mac, request.TPA, request.SPA)
    IN  IF failAt = n + 1 THEN [err |-> "MarshalBinary", data |-> <<>>]
        ELSE LET eth == [SrcMAC |-> mac, DstMAC |-> request.SHA, Type |-> 2054,
                         Payload |-> MarshalARP(v)]
             IN  IF failAt = n + 2 THEN [err |-> "MarshalBinary", data |-> <<>>]
                 ELSE [err |-> "", data |-> MarshalEthernet(eth)]

\* Fallible calls n+1: v.MarshalBinary, n+2: eth.MarshalBinary.
makeARPReply(request, mac, n, failAt) ==
    LET v == NewARPReply(mac, request.SHA, request.TPA, request.SPA)
    IN  IF failAt = n + 1 THEN [err |-> "MarshalBinary", data |-> <<>>]
        ELSE LET eth == [SrcMAC |-> mac, DstMAC |-> request.SHA, Type |-> 2054,
                         Payload |-> MarshalARP(v)]
             IN  IF failAt = n + 2 THEN [err |-> "MarshalBinary", data |-> <<>>]
                 ELSE [err |-> "", data |-> MarshalEthernet(eth)]

\* Fallible calls n+1: NewAction, n+2: NewPacketOut, n+3: SendMessage.
sendARPReply(ingress, packet, n, failAt) ==
    LET inPort  == SetController(NewInPort)
        outPort == SetValue(NewOutPort, ingress.number)
        out     == [type |-> "PACKET_OUT", inPort |-> inPort,
                    action |-> [output |-> outPort], data |-> packet]
    IN  IF failAt = n + 1 THEN [err |-> "NewAction", trace |-> <<>>]
        ELSE IF failAt = n + 2 THEN [err |-> "NewPacketOut", trace |-> <<>>]
        ELSE IF failAt = n + 3 THEN [err |-> "SendMessage", trace |-> <<>>]
        ELSE [err |-> "", trace |-> <<Sent(ingress.device, out)>>]

\* OnPacketIn for an ARP announcement.
OnARPAnnouncement(db, finder, ingress, eth, arp, failAt, nextRet) ==
    LET a == isValidARPAnnouncement(db, arp, failAt)
        b == BaseOnPacketIn(finder, ingress, eth, nextRet)
    IN  IF a.err # "" THEN [trace |-> a.trace, ret |-> a.err]
        ELSE IF ~a.valid THEN [trace |-> a.trace, ret |-> ""]
        ELSE [trace |-> a.trace \o b.trace, ret |-> b.ret]

\* Mutant: a request for an unknown target goes on to the next stage.
OnARPRequest_ForwardUnknown(db, finder, ingress, eth, arp, failAt, nextRet) ==
    LET f     == FindMAC(db, arp.TPA, failAt = 1)
        reply == makeARPReply(arp, f.mac, 1, failAt)
        s     == sendARPReply(ingress, reply.data, 3, failAt)
        b     == BaseOnPacketIn(finder, ingress, eth, nextRet)
    IN  IF f.err # "" THEN [trace |-> f.trace, ret |-> f.err]
        ELSE IF ~f.ok THEN [trace |-> f.trace \o b.trace, ret |-> b.ret]
        ELSE IF reply.err # "" THEN [trace |-> f.trace, ret |-> reply.err]
        ELSE [trace |-> f.trace \o s.trace, ret |-> s.err]

\* Mutant: the request is answered and then goes on to the next stage.
OnARPRequest_ReplyAndForward(db, finder, ingress, eth, arp, failAt, nextRet) ==
    LET f     == FindMAC(db, arp.TPA, failAt = 1)
        reply == makeARPReply(arp, f.mac, 1, failAt)
        s     == sendARPReply(ingress, reply.data, 3, failAt)
        b     == BaseOnPacketIn(finder, ingress, eth, nextRet)
    IN  IF f.err # "" THEN [trace |-> f.trace, ret |-> f.err]
        ELSE IF ~f.ok THEN [trace |-> f.trace, ret |-> ""]
        ELSE IF reply.err # "" THEN [trace |-> f.trace, ret |-> reply.err]
        ELSE IF s.err # "" THEN [trace |-> f.trace \o s.trace, ret |-> s.err]
        ELSE [trace |-> f.trace \o s.trace \o b.trace, ret |-> b.ret]

\* OnPacketIn for an ARP request that is not an announcement.  Fallible
\* calls 1: FindMAC, 2-3: makeARPReply, 4-6: sendARPReply.
OnARPRequest(db, finder, ingress, eth, arp, failAt, nextRet) ==
    LET f     == FindMAC(db, arp.TPA, failAt = 1)
        reply == makeARPReply(arp, f.mac, 1, failAt)
        s     == sendARPReply(ingress, reply.data, 3, failAt)
    IN  IF f.err # "" THEN [trace |-> f.trace, ret |-> f.err]
        ELSE IF ~f.ok THEN [trace |-> f.trace, ret |-> ""]
        ELSE IF reply.err # "" THEN [trace |-> f.trace, ret |-> reply.err]
        ELSE [trace |-> f.trace \o s.trace, ret |-> s.err]

\* Mutant: the operation of the packet is not looked at.
OnARP_AnyOperation(db, finder, ingress, eth, failAt, nextRet) ==
    LET u == UnmarshalARP(eth.Payload)
    IN  IF u.err # "" THEN [trace |-> <<>>, ret |-> u.err]
        ELSE IF isARPAnnouncement(u.arp)
             THEN OnARPAnnouncement(db, finder, ingress, eth, u.arp, failAt, nextRet)
        ELSE OnARPRequest(db, finder, ingress, eth, u.arp, failAt, nextRet)

\* OnPacketIn for a frame of type ARP.
OnARP(db, finder, ingress, eth, failAt, nextRet) ==
    LET u == UnmarshalARP(eth.Payload)
    IN  IF u.err # "" THEN [trace |-> <<>>, ret |-> u.err]
        ELSE IF u.arp.Operation # 1 THEN [trace |-> <<>>, ret |-> ""]
        ELSE IF isARPAnnouncement(u.arp)
             THEN OnARPAnnouncement(db, finder, ingress, eth, u.arp, failAt, nextRet)
        ELSE OnARPRequest(db, finder, ingress, eth, u.arp, failAt, nextRet)

\* Mutant: a frame that is not ARP is dropped.
OnPacketIn_DropsOthers(db, finder, ingress, eth, failAt, nextRet) ==
    IF eth.Type # 2054
    THEN [trace |-> <<>>, ret |-> ""]
    ELSE OnARP(db, finder, ingress, eth, failAt, nextRet)

\* ProxyARP.OnPacketIn; 2054 is 0x0806.
OnPacketIn(db, finder, ingress, eth, failAt, nextRet) ==
    IF eth.Type # 2054
    THEN BaseOnPacketIn(finder, ingress, eth, nextRet)
    ELSE OnARP(db, finder, ingress, eth, failAt, nextRet)

\* Fallible calls n+1: v.MarshalBinary, n+2: eth.MarshalBinary.
makeARPAnnouncement(ip, mac, n, failAt) ==
    LET v == NewARPRequest(mac, ip, ip)
    IN  IF failAt = n + 1 THEN [err |-> "MarshalBinary", data |-> <<>>]
        ELSE LET eth == [SrcMAC |-> mac, DstMAC |-> BroadcastMAC, Type |-> 2054,
                         Payload |-> MarshalARP(v)]
             IN  IF failAt = n + 2 THEN [err |-> "MarshalBinary", data |-> <<>>]
                 ELSE [err |-> "", data |-> MarshalEthernet(eth)]

\* Fallible calls n+1: NewAction, n+2: NewPacketOut, n+3: SendMessage.
sendARPAnnouncement(dev, packet, n, failAt) ==
    LET inPort == SetController(NewInPort)
        out    == [type |-> "PACKET_OUT", inPort |-> inPort,
                   action |-> [output |-> NewOutPort], data |-> packet]
    IN  IF failAt = n + 1 THEN [err |-> "NewAction", trace |-> <<>>]
        ELSE IF failAt = n + 2 THEN [err |-> "NewPacketOut", trace |-> <<>>]
        ELSE IF failAt = n + 3 THEN [err |-> "SendMessage", trace |-> <<>>]
        ELSE [err |-> "", trace |-> <<Sent(dev, out)>>]

\* The address pair OnDeviceUp announces: 223.130.122.1, 00:01:e8:8b:64:42.
AnnouncedIP == <<223, 130, 122, 1>>

AnnouncedMAC == <<0, 1, 232, 139, 100, 66>>

\* Mutant: the event goes to the next stage before the announcement is
\* made, and whether or not it could be sent.
OnDeviceUp_ForwardFirst(finder, dev, failAt, nextRet) ==
    LET announcement == makeARPAnnouncement(AnnouncedIP, AnnouncedMAC, 0, failAt)
        s == sendARPAnnouncement(dev, announcement.data, 2, failAt)
        b == BaseOnDeviceUp(finder, dev, nextRet)
    IN  IF announcement.err # "" THEN [trace |-> b.trace, ret |-> b.ret]
        ELSE [trace |-> b.trace \o s.trace, ret |-> b.ret]

\* ProxyARP.OnDeviceUp.  Fallible calls 1-2: makeARPAnnouncement,
\* 3-5: sendARPAnnouncement.
OnDeviceUp(finder, dev, failAt, nextRet) ==
    LET announcement == makeARPAnnouncement(AnnouncedIP, AnnouncedMAC, 0, failAt)
        s == sendARPAnnouncement(dev, announcement.data, 2, failAt)
        b == BaseOnDeviceUp(finder, dev, nextRet)
    IN  IF announcement.err # ""
        THEN [trace |-> <<>>, ret |-> "making ARP announcement: " \o announcement.err]
        ELSE IF s.err # ""
        THEN [trace |-> s.trace, ret |-> "sending ARP announcement: " \o s.err]
        ELSE [trace |-> s.trace \o b.trace, ret |-> b.ret]

(***************************************************************************)
(* Inputs of ProxyARP.                                                     *)
(***************************************************************************)
MAC1 == <<170, 187, 204, 221, 238, 255>>

MAC2 == <<2, 0, 0, 0, 0, 2>>

IP1 == <<10, 0, 0, 5>>

IP2 == <<10, 0, 0, 6>>

IP3 == <<10, 0, 0, 7>>

NoDirectory == [ip \in {} |-> ZeroMAC]

Directories ==
    { NoDirectory,
      [ip \in {IP1, IP3} |-> IF ip = IP1 THEN MAC1 ELSE MAC2],
      [ip \in {IP1, IP2} |-> MAC2] }

ARPPackets ==
    [Operation : {1, 2}, SHA : {MAC1, MAC2}, SPA : {IP1, IP2},
     THA : {ZeroMAC, MAC2}, TPA : {IP1, IP2, IP3}]

\* Frames of type ARP with a whole packet, one with a cut packet, and
\* frames of two other types, one of them with the bytes of an ARP request.
Frames ==
    { [SrcMAC |-> MAC1, DstMAC |-> BroadcastMAC, Type |-> 2054, Payload |-> MarshalARP(a)]
        : a \in ARPPackets }
    \cup { [SrcMAC |-> MAC1, DstMAC |-> BroadcastMAC, Type |-> 2054,
            Payload |-> <<0, 1, 8, 0>>],
           [SrcMAC |-> MAC1, DstMAC |-> MAC2, Type |-> 2048, Payload |-> <<69, 0>>],
           [SrcMAC |-> MAC1, DstMAC |-> BroadcastMAC, Type |-> 34525,
            Payload |-> MarshalARP(NewARPRequest(MAC1, IP1, IP3))] }

IngressPorts ==
    { [device |-> "dpid-1", number |-> PortNum(0, 1)],
      [device |-> "dpid-2", number |-> PortNum(0, 7)] }

Finder == "finder"

NextResults == {"", "next stage failed"}

NoFrame == [SrcMAC |-> <<>>, DstMAC |-> <<>>, Type |-> 0, Payload |-> <<>>]

NoArpCall ==
    [handler |-> "none", ingress |-> [device |-> "", number |-> PortNum(0, 0)],
     eth |-> NoFrame, failAt |-> 0, nextRet |-> "", trace |-> <<>>, ret |-> ""]

ArpCalled(handler, ingress, eth, failAt, nextRet, r) ==
    [handler |-> handler, ingress |-> ingress, eth |-> eth, failAt |-> failAt,
     nextRet |-> nextRet, trace |-> r.trace, ret |-> r.ret]

(***************************************************************************)
(* The transport takes the next message from the connection and calls its  *)
(* handler; one handler runs at a time.                                    *)
(***************************************************************************)
Received(type) ==
    /\ replies # <<>>
    /\ Head(replies).type = type
    /\ replies' = Tail(replies)
    /\ UNCHANGED <<swDesc, swPorts, swHandled, swFlows, swErased, nStatus, arpVars>>

RecvHello ==
    /\ Received("HELLO")
    /\ OnHello

HelloSend ==
    /\ \E fail \in BOOLEAN : OnHelloSend(fail)
    /\ UNCHANGED <<swVars, arpVars>>

RecvDescReply ==
    /\ Received("DESC_REPLY")
    /\ \E failAt \in 0..MaxFailAt : OnDescReply(Head(replies), failAt)

RecvPortDescReply ==
    /\ Received("PORT_DESC_REPLY")
    /\ \E failing \in Failings(Head(replies).ports) : OnPortDescReply(Head(replies), failing)

RecvPortStatus ==
    /\ Received("PORT_STATUS")
    /\ OnPortStatus(Head(replies))

RecvNoop ==
    /\ \E t \in NoopTypes : Received(t) /\ OnNoop(NoopHandler(t), Head(replies))

Controller ==
    \/ RecvDescReply
    \/ RecvPortDescReply
    \/ RecvPortStatus
    \/ RecvNoop

(***************************************************************************)
(* SpecAny: the peer sends any message in any order; what a handler wrote  *)
(* is transmitted before the next message is taken.  OnHello is left to    *)
(* Spec.                                                                   *)
(***************************************************************************)
InitAny ==
    /\ InitController
    /\ swDesc = DescReply(<<>>, <<>>)
    /\ swPorts = <<>>
    /\ swHandled = {}
    /\ swFlows = {}
    /\ swErased = {}
    /\ replies = <<>>
    /\ nStatus = 0
    /\ arpDb = NoDirectory
    /\ arpCall = NoArpCall

AnyMessages ==
    DescReplies
        \cup { PortDescReply(ports) : ports \in PortLists }
        \cup { PortStatus(p) : p \in Ports }
        \cup { [type |-> t] : t \in NoopTypes }

Deliver ==
    /\ replies = <<>>
    /\ last.handler = "none"
    /\ \E m \in AnyMessages : replies' = <<m>>
    /\ UNCHANGED <<wire, hello, device, last, ran, instMode, updateMode,
                   swDesc, swPorts, swHandled, swFlows, swErased, nStatus, arpVars>>

\* The handler has returned: what it wrote leaves the connection.
Transmit ==
    /\ last.handler # "none"
    /\ wire' = <<>>
    /\ last' = NoCall
    /\ UNCHANGED <<hello, device, ran, instMode, updateMode, swVars, arpVars>>

NextAny ==
    \/ Deliver
    \/ Controller
    \/ Transmit

SpecAny == InitAny /\ [][NextAny]_vars

(***************************************************************************)
(* Spec: a switch that honours barriers.  It may handle the commands on    *)
(* the wire in any order, except that a BARRIER_REQUEST is handled only    *)
(* when every command before it has been, and no command after a barrier   *)
(* is handled before the barrier.  Replies reach the controller in the     *)
(* order the switch emitted them.  Barrier replies go to no handler of     *)
(* OF13Controller and are left out.                                        *)
(***************************************************************************)
SwitchDescs ==
    { DescReply(StrHP, Str2920 \o <<"x">>),
      DescReply(StrHP, Str2920 \o StrAS4600),
      DescReply(<<"x">> \o StrHP, <<"x">> \o StrAS4600 \o <<"x">>),
      DescReply(<<"x">> \o StrHP, Str2920 \o <<"x">>) }

SwitchPortLists ==
    { <<>>,
      << Port(PortNum(0, 1), FALSE, FALSE), Port(PortNum(65535, 65281), FALSE, FALSE) >>,
      << Port(PortNum(0, 1), TRUE, FALSE), Port(OFPP_MAX, FALSE, FALSE) >> }

\* Ports whose change the switch notifies: one known, the highest valid one,
\* and a reserved one.
SwitchStatusPorts ==
    { Port(PortNum(0, 1), TRUE, FALSE),
      Port(OFPP_MAX, FALSE, FALSE),
      Port(PortNum(65535, 65281), FALSE, FALSE) }

StaleFlow == [stale |-> TRUE, entry |-> [type |-> "FLOW_MOD"]]

Init ==
    /\ InitController
    /\ swDesc \in SwitchDescs
    /\ swPorts \in SwitchPortLists
    /\ swHandled = {}
    /\ swFlows = {StaleFlow}
    /\ swErased = {}
    /\ replies = << [type |-> "HELLO"] >>
    /\ nStatus = 0
    /\ arpDb = NoDirectory
    /\ arpCall = NoArpCall

Remove(seq, i) == SubSeq(seq, 1, i - 1) \o SubSeq(seq, i + 1, Len(seq))

MayHandle(i) ==
    /\ \A j \in 1..(i - 1) : wire[j].type # "BARRIER_REQUEST"
    /\ wire[i].type = "BARRIER_REQUEST" => i = 1

SwitchReply(m) ==
    CASE m.type = "FEATURES_REQUEST" -> << [type |-> "FEATURES_REPLY"] >>
      [] m.type = "DESCRIPTION_REQUEST" -> << swDesc >>
      [] m.type = "PORT_DESCRIPTION_REQUEST" -> << PortDescReply(swPorts) >>
      [] OTHER -> <<>>

SwitchHandle ==
    \E i \in 1..Len(wire) :
        /\ MayHandle(i)
        /\ LET m == wire[i] IN
           /\ wire' = Remove(wire, i)
           /\ swHandled' = swHandled \cup {m.type}
           /\ replies' = replies \o SwitchReply(m)
           /\ swFlows' = CASE m.type = "FLOW_MOD_REMOVE_ALL" -> {}
                           [] m.type = "FLOW_MOD" -> swFlows \cup {[stale |-> FALSE, entry |-> m]}
                           [] OTHER -> swFlows
           /\ swErased' = IF m.type = "FLOW_MOD_REMOVE_ALL"
                          THEN swErased \cup {f \in swFlows : ~f.stale}
                          ELSE swErased
        /\ UNCHANGED <<hello, device, last, ran, instMode, updateMode,
                       swDesc, swPorts, nStatus, arpVars>>

SwitchPortStatus ==
    /\ nStatus < MaxStatus
    /\ nStatus' = nStatus + 1
    /\ \E p \in SwitchStatusPorts : replies' = Append(replies, PortStatus(p))
    /\ UNCHANGED <<wire, hello, device, last, ran, instMode, updateMode,
                   swDesc, swPorts, swHandled, swFlows, swErased, arpVars>>

Next ==
    \/ RecvHello
    \/ HelloSend
    \/ Controller
    \/ SwitchHandle
    \/ SwitchPortStatus

Spec == Init /\ [][Next]_vars

(***************************************************************************)
(* SpecArp: the pipeline calls ProxyARP with one event at a time; the      *)
(* directory is any of Directories and stays as it is.                     *)
(***************************************************************************)
InitArp ==
    /\ InitController
    /\ swDesc = DescReply(<<>>, <<>>)
    /\ swPorts = <<>>
    /\ swHandled = {}
    /\ swFlows = {}
    /\ swErased = {}
    /\ replies = <<>>
    /\ nStatus = 0
    /\ arpDb \in Directories
    /\ arpCall = NoArpCall

PacketIn ==
    /\ arpCall.handler = "none"
    /\ \E ingress \in IngressPorts, eth \in Frames,
          failAt \in 0..MaxFailAt, nextRet \in NextResults :
          arpCall' = ArpCalled("OnPacketIn", ingress, eth, failAt, nextRet,
                               OnPacketIn(arpDb, Finder, ingress, eth, failAt, nextRet))
    /\ UNCHANGED <<wire, hello, device, last, ran, instMode, updateMode, swVars, arpDb>>

DeviceUp ==
    /\ arpCall.handler = "none"
    /\ \E ingress \in IngressPorts, failAt \in 0..MaxFailAt, nextRet \in NextResults :
          arpCall' = ArpCalled("OnDeviceUp", [ingress EXCEPT !.number = PortNum(0, 0)],
                               NoFrame, failAt, nextRet,
                               OnDeviceUp(Finder, ingress.device, failAt, nextRet))
    /\ UNCHANGED <<wire, hello, device, last, ran, instMode, updateMode, swVars, arpDb>>

\* The handler's result has been taken by the pipeline.
Returned ==
    /\ arpCall.handler # "none"
    /\ arpCall' = NoArpCall
    /\ UNCHANGED <<wire, hello, device, last, ran, instMode, updateMode, swVars, arpDb>>

NextArp ==
    \/ PacketIn
    \/ DeviceUp
    \/ Returned

SpecArp == InitArp /\ [][NextArp]_vars

(***************************************************************************)
(* Properties of the handshake (Spec)                                      *)
(***************************************************************************)
HandshakeOrder ==
    << [type |-> "HELLO"],
       [type |-> "SET_CONFIG"],
       [type |-> "FEATURES_REQUEST"],
       [type |-> "BARRIER_REQUEST"],
       [type |-> "FLOW_MOD_REMOVE_ALL"],
       [type |-> "BARRIER_REQUEST"],
       [type |-> "DESCRIPTION_REQUEST"],
       [type |-> "BARRIER_REQUEST"],
       [type |-> "PORT_DESCRIPTION_REQUEST"] >>

\* C1: as long as no send of OnHello has failed, what OnHello has written is
\* the first hello.step messages of the fixed order HELLO, SET_CONFIG,
\* FEATURES_REQUEST, BARRIER_REQUEST, FLOW_MOD remove-all, BARRIER_REQUEST,
\* DESCRIPTION_REQUEST, BARRIER_REQUEST, PORT_DESCRIPTION_REQUEST, one send
\* after the other; no other handler runs in between; and OnHello returns
\* success exactly when all nine are written.
C1_HandshakeOrder ==
    /\ hello.state \in {"running", "ok"} =>
          /\ hello.step \in 0..9
          /\ hello.written = SubSeq(HandshakeOrder, 1, hello.step)
          /\ hello.err = ""
    /\ hello.state = "running" => hello.step < 9 /\ last.handler = "OnHello"
    /\ hello.state = "ok" => hello.written = HandshakeOrder

C1_Witness ==
    hello.state = "ok" /\ Len(hello.written) = 9

\* C2: when the send of step k fails, OnHello returns an error, what it has
\* written is exactly steps 1..k-1 in handshake order (step k is not among
\* them and is not retried), and from then on OnHello sends nothing more.
C2_AbortOnFailure ==
    /\ [](hello.state = "err" =>
             /\ hello.failed \in 1..9
             /\ hello.err # ""
             /\ hello.written = SubSeq(HandshakeOrder, 1, hello.failed - 1))
    /\ [][hello.state = "err" => hello' = hello]_vars

C2_Witness ==
    hello.state = "err" /\ hello.failed = 6 /\ Len(hello.written) = 5

\* C3: with a switch that honours barriers and answers the description
\* request only when it handles it, every table-miss flow-add of OnDescReply
\* is applied after the remove-all command was applied: a flow entry of this
\* connection is in the switch only once the flush was handled, and the
\* flush never erases one.
C3_FlushBeforeTableMiss ==
    /\ swErased = {}
    /\ \A f \in swFlows : ~f.stale => "FLOW_MOD_REMOVE_ALL" \in swHandled

C3_Witness ==
    /\ \E f \in swFlows : ~f.stale /\ f.entry.tableID = 200
    /\ StaleFlow \notin swFlows

\* C4: with a switch that honours barriers and a FIFO connection, the switch
\* handles the description request (and emits its reply) before it handles
\* the port description request, so OnDescReply returns before
\* OnPortDescReply is called.
C4_DescBeforePortDesc ==
    /\ "PORT_DESCRIPTION_REQUEST" \in swHandled => "DESCRIPTION_REQUEST" \in swHandled
    /\ \A i \in 1..Len(replies) :
          replies[i].type = "DESC_REPLY" =>
              \A j \in 1..(i - 1) : replies[j].type # "PORT_DESC_REPLY"
    /\ "OnPortDescReply" \in ran => "OnDescReply" \in ran

C4_Witness ==
    /\ last.handler = "OnPortDescReply"
    /\ {"OnDescReply", "OnPortDescReply"} \subseteq ran

(***************************************************************************)
(* Properties of the handlers (SpecAny)                                    *)
(***************************************************************************)
StartsWith(s, p) ==
    Len(p) <= Len(s) /\ \A i \in 1..Len(p) : s[i] = p[i]

Occurs(s, sub) ==
    \E k \in 0..(Len(s) - Len(sub)) : \A i \in 1..Len(sub) : s[k + i] = sub[i]

ExpectedProfile(v) ==
    IF /\ StartsWith(v.manufacturer, <<"H", "P">>)
       /\ StartsWith(v.hardware, <<"2", "9", "2", "0", "-", "2", "4", "G">>)
    THEN "HP2920"
    ELSE IF Occurs(v.hardware, <<"A", "S", "4", "6", "0", "0", "-", "5", "4", "T">>)
         THEN "AS4600"
         ELSE "Default"

IsTableMissAdd(m, tableID) ==
    m.type = "FLOW_MOD" /\ m.command = "FlowAdd" /\ m.tableID = tableID

ToController == [output |-> "CONTROLLER"]

\* C5: OnDescReply runs exactly one profile, chosen by the manufacturer and
\* hardware strings alone: the HP 2920 profile when the manufacturer starts
\* with "HP" and the hardware with "2920-24G" (also when the hardware contains
\* "AS4600-54T" as well), else the AS4600 profile when the hardware contains
\* "AS4600-54T", else the default profile; what is written fits that profile.
C5_ProfileSelection ==
    last.handler = "OnDescReply" =>
        /\ last.profile = ExpectedProfile(last.input)
        /\ last.profile = "AS4600" => last.written = <<>>
        /\ last.profile = "Default" =>
              /\ Len(last.written) <= 1
              /\ \A i \in 1..Len(last.written) : last.written[i].instruction.goto = {}
        /\ last.profile = "HP2920" =>
              /\ Len(last.written) <= 3
              /\ Len(last.written) >= 1 => last.written[1].instruction.goto = {100}

C5_Witness ==
    /\ last.handler = "OnDescReply"
    /\ StartsWith(last.input.manufacturer, <<"H", "P">>)
    /\ StartsWith(last.input.hardware, <<"2", "9", "2", "0", "-", "2", "4", "G">>)
    /\ Occurs(last.input.hardware, <<"A", "S", "4", "6", "0", "0", "-", "5", "4", "T">>)
    /\ last.profile = "HP2920"
    /\ Len(last.written) = 3

\* C6: for an HP 2920 description reply with no failure, OnDescReply writes
\* exactly three table-miss flow-adds, for tables 0, 100, 200 in that order:
\* table 0 jumps to 100, table 100 jumps to 200, table 200 applies the
\* send-to-controller action; afterwards the device's flow table ID is 200.
C6_HP2920Chain ==
    (last.handler = "OnDescReply" /\ ExpectedProfile(last.input) = "HP2920" /\ last.err = "") =>
        /\ Len(last.written) = 3
        /\ wire = last.written
        /\ IsTableMissAdd(last.written[1], 0)
        /\ last.written[1].instruction.goto = {100}
        /\ last.written[1].instruction.apply = {}
        /\ IsTableMissAdd(last.written[2], 100)
        /\ last.written[2].instruction.goto = {200}
        /\ last.written[2].instruction.apply = {}
        /\ IsTableMissAdd(last.written[3], 200)
        /\ last.written[3].instruction.apply = {ToController}
        /\ device.flowTableID = 200

C6_Witness ==
    /\ last.handler = "OnDescReply"
    /\ ExpectedProfile(last.input) = "HP2920"
    /\ last.err = ""
    /\ last.before.flowTableID = 0
    /\ device.flowTableID = 200

\* C7: for an AS4600 description reply (the hardware contains "AS4600-54T" and
\* the HP 2920 condition does not hold) OnDescReply writes nothing, leaves the
\* device (flow table ID and ports) as it was, and returns success.
C7_AS4600NoOp ==
    (last.handler = "OnDescReply" /\ ExpectedProfile(last.input) = "AS4600") =>
        /\ last.written = <<>>
        /\ wire = <<>>
        /\ last.err = ""
        /\ device = last.before

C7_Witness ==
    /\ last.handler = "OnDescReply"
    /\ ExpectedProfile(last.input) = "AS4600"
    /\ last.failing = 3
    /\ last.before.flowTableID = 200
    /\ last.before.ports # {}

\* C8: for a description reply of neither profile and with no failure,
\* OnDescReply writes exactly one table-miss flow-add, for table 0, applying
\* the send-to-controller action; afterwards the device's flow table ID is 0.
C8_DefaultTableMiss ==
    (last.handler = "OnDescReply" /\ ExpectedProfile(last.input) = "Default" /\ last.err = "") =>
        /\ Len(last.written) = 1
        /\ wire = last.written
        /\ IsTableMissAdd(last.written[1], 0)
        /\ last.written[1].instruction.apply = {ToController}
        /\ last.written[1].instruction.goto = {}
        /\ device.flowTableID = 0

C8_Witness ==
    /\ last.handler = "OnDescReply"
    /\ ExpectedProfile(last.input) = "Default"
    /\ last.err = ""
    /\ last.before.flowTableID = 200
    /\ device.flowTableID = 0

\* C9: every table-miss flow-add written, under any profile and for any
\* table, has priority 0, idle and hard timeout 0, a wildcard match, and a
\* cookie with bit 63 set.
C9_TableMissFields ==
    \A i \in 1..Len(wire) :
        wire[i].type = "FLOW_MOD" =>
            /\ wire[i].priority = 0
            /\ wire[i].idleTimeout = 0
            /\ wire[i].hardTimeout = 0
            /\ wire[i].match = {}
            /\ 63 \in wire[i].cookie

C9_Witness ==
    /\ Len(wire) = 3
    /\ \A i \in 1..3 : wire[i].type = "FLOW_MOD"
    /\ wire[2].tableID = 100
    /\ device.flowTableID = 200

\* A port number above 0xffffff00.
AboveMax(n) == n.hi = 65535 /\ n.lo > 65280

InRangeNumbers(ports) ==
    { ports[i].number : i \in { j \in 1..Len(ports) : ~AboveMax(ports[j].number) } }

\* C10: a port numbered above OFPP_MAX never enters the device's port set,
\* by OnPortDescReply or by OnPortStatus, and no LLDP frame is sent for it; a
\* reported port numbered OFPP_MAX or below is in the port set after
\* OnPortDescReply, and ports that were not reported keep their entry.
\* OnPortStatus changes at most the port it names, writes no message, and
\* leaves the device's identity and flow table ID alone.
C10_PortRange ==
    /\ \A q \in device.ports : ~AboveMax(q.number)
    /\ last.handler = "OnPortDescReply" =>
          LET nums == InRangeNumbers(last.input.ports) IN
          /\ \A n \in nums : \E q \in device.ports : q.number = n
          /\ {q \in device.ports : q.number \notin nums}
                = {q \in last.before.ports : q.number \notin nums}
          /\ \A i \in 1..Len(last.written) : ~AboveMax(last.written[i].port)
          /\ device.id = last.before.id
    /\ last.handler = "OnPortStatus" =>
          LET p == last.input.port IN
          /\ last.written = <<>>
          /\ wire = <<>>
          /\ device.id = last.before.id
          /\ device.flowTableID = last.before.flowTableID
          /\ {q \in device.ports : q.number # p.number}
                = {q \in last.before.ports : q.number # p.number}
          /\ AboveMax(p.number) => device = last.before
          /\ (~AboveMax(p.number) /\ \E q \in last.before.ports : q.number = p.number)
                => p \in device.ports

C10_Witness ==
    /\ last.handler = "OnPortDescReply"
    /\ Len(last.input.ports) = 2
    /\ AboveMax(last.input.ports[1].number)
    /\ last.input.ports[2].number = [hi |-> 65535, lo |-> 65280]
    /\ last.input.ports[2] \in device.ports
    /\ last.before.ports # {}

\* The positions of a reply whose port is in range, administratively up and
\* link-up, in order.
RECURSIVE ProbedFrom(_, _)
ProbedFrom(ports, i) ==
    IF i > Len(ports) THEN <<>>
    ELSE IF ~AboveMax(ports[i].number) /\ ports[i].portDown = FALSE /\ ports[i].linkDown = FALSE
         THEN <<i>> \o ProbedFrom(ports, i + 1)
         ELSE ProbedFrom(ports, i + 1)

\* C11: OnPortDescReply sends an LLDP frame for a reported in-range port
\* exactly when the port is administratively up and link-up (the frames
\* written are those of these ports whose send did not fail, in the order
\* reported); a failed LLDP send leaves the port in the device's port set,
\* every later port of the reply is still added and probed, and
\* OnPortDescReply returns success.
C11_LLDPBestEffort ==
    last.handler = "OnPortDescReply" =>
        LET ports  == last.input.ports
            probed == SelectSeq(ProbedFrom(ports, 1), LAMBDA i : i \notin last.failing)
        IN  /\ last.err = ""
            /\ Len(last.written) = Len(probed)
            /\ \A k \in 1..Len(probed) :
                  /\ last.written[k].payload = "LLDP"
                  /\ last.written[k].port = ports[probed[k]].number
                  /\ last.written[k].deviceID = device.id
            /\ \A i \in 1..Len(ports) :
                  ~AboveMax(ports[i].number) =>
                      \E q \in device.ports : q.number = ports[i].number
            /\ \A i \in 1..Len(ports) :
                  (~AboveMax(ports[i].number)
                     /\ \A j \in (i + 1)..Len(ports) : ports[j].number # ports[i].number)
                  => ports[i] \in device.ports

C11_Witness ==
    /\ last.handler = "OnPortDescReply"
    /\ Len(last.input.ports) = 2
    /\ last.failing = {1}
    /\ last.input.ports[1] = [number |-> [hi |-> 0, lo |-> 1], portDown |-> FALSE, linkDown |-> FALSE]
    /\ last.input.ports[2] = [number |-> [hi |-> 65535, lo |-> 65280],
                              portDown |-> FALSE, linkDown |-> FALSE]
    /\ Len(last.written) = 1
    /\ last.written[1].port = [hi |-> 65535, lo |-> 65280]
    /\ last.input.ports[1] \in device.ports
    /\ last.input.ports[2] \in device.ports

\* C19: when the send of step k of OnHello fails, the error text identifies
\* step k: a failure of any step that sends another kind of message would
\* have given another text.
C19_ErrorIdentifiesStep ==
    hello.state = "err" =>
        \A j \in 1..9 :
            HandshakeOrder[j].type # HandshakeOrder[hello.failed].type
                => HelloErrText(j) # hello.err

\* The number of table-miss entries written before fallible call number
\* failAt of the HP 2920 profile fails.
WrittenBeforeFailure(failAt) ==
    IF failAt <= 4 THEN 0 ELSE IF failAt <= 7 THEN 1 ELSE 2

\* C20: when a message construction or a write fails during OnDescReply,
\* OnDescReply returns an error, writes nothing after the failure (for the
\* HP 2920 profile the entries written are those of tables 0, 100 that came
\* before it) and the device keeps its flow table ID; the flow table ID is
\* set only by a call that wrote every entry of its profile.
C20_TableIDOnlyOnSuccess ==
    last.handler = "OnDescReply" =>
        /\ (last.failing \in 1..11 /\ ExpectedProfile(last.input) = "HP2920") =>
              /\ last.err # ""
              /\ Len(last.written) = WrittenBeforeFailure(last.failing)
              /\ \A i \in 1..Len(last.written) :
                    IsTableMissAdd(last.written[i], <<0, 100>>[i])
        /\ (last.failing \in 1..5 /\ ExpectedProfile(last.input) = "Default") =>
              /\ last.err # ""
              /\ last.written = <<>>
        /\ last.err # "" =>
              /\ device = last.before
              /\ wire = last.written
        /\ last.err = "" =>
              Len(last.written) = CASE ExpectedProfile(last.input) = "HP2920" -> 3
                                    [] ExpectedProfile(last.input) = "AS4600" -> 0
                                    [] OTHER -> 1

C20_Witness ==
    /\ last.handler = "OnDescReply"
    /\ ExpectedProfile(last.input) = "HP2920"
    /\ last.failing = 11
    /\ last.err # ""
    /\ Len(last.written) = 2
    /\ last.before.flowTableID = 0
    /\ device.flowTableID = 0

(***************************************************************************)
(* ProxyARP claims, over SpecArp.                                          *)
(***************************************************************************)
Sends == SelectSeq(arpCall.trace, LAMBDA e : e.kind = "send")

Forwards == SelectSeq(arpCall.trace, LAMBDA e : e.kind = "forward")

Lookups == SelectSeq(arpCall.trace, LAMBDA e : e.kind = "lookup")

\* The call is OnPacketIn with a frame of type ARP whose packet is whole.
IsARPCall ==
    /\ arpCall.handler = "OnPacketIn"
    /\ arpCall.eth.Type = 2054
    /\ Len(arpCall.eth.Payload) >= 28

\* The fields of the ARP packet of the frame, taken from its bytes.
ReqOp == arpCall.eth.Payload[7] * 256 + arpCall.eth.Payload[8]

ReqSHA == SubSeq(arpCall.eth.Payload, 9, 14)

ReqSPA == SubSeq(arpCall.eth.Payload, 15, 18)

ReqTHA == SubSeq(arpCall.eth.Payload, 19, 24)

ReqTPA == SubSeq(arpCall.eth.Payload, 25, 28)

AnnouncementShaped == ReqSPA = ReqTPA /\ ReqTHA = <<0, 0, 0, 0, 0, 0>>

ThisEvent == [kind |-> "forward", event |-> "OnPacketIn",
              args |-> <<Finder, arpCall.ingress, arpCall.eth>>]

\* The bytes of an Ethernet frame of type 0x0806 carrying an Ethernet/IPv4
\* ARP packet.
ARPFrameBytes(dst, src, op, sha, spa, tha, tpa) ==
    dst \o src \o <<8, 6>> \o <<0, 1, 8, 0, 6, 4, 0, op>> \o sha \o spa \o tha \o tpa

\* C12: an ARP request (operation 1) that is not an announcement, received
\* on ingress port P, whose target address the directory maps to M, makes
\* OnPacketIn send exactly one packet-out on the device of P, with in-port
\* controller and output port P, carrying an Ethernet frame of type 0x0806
\* from M to the requester's hardware address with an ARP reply: sender M
\* and the requested address, target the requester's hardware and protocol
\* addresses.  The request does not reach the next stage.
C12_ReplyFromDirectory ==
    (/\ IsARPCall
     /\ ReqOp = 1
     /\ ~AnnouncementShaped
     /\ ReqTPA \in DOMAIN arpDb
     /\ arpCall.failAt \notin 1..6)
    => /\ arpCall.ret = ""
       /\ Forwards = <<>>
       /\ Len(Sends) = 1
       /\ Sends[1].device = arpCall.ingress.device
       /\ Sends[1].msg.type = "PACKET_OUT"
       /\ Sends[1].msg.inPort.kind = "controller"
       /\ Sends[1].msg.action.output = [kind |-> "port", value |-> arpCall.ingress.number]
       /\ Sends[1].msg.data =
              ARPFrameBytes(ReqSHA, arpDb[ReqTPA], 2,
                            arpDb[ReqTPA], ReqTPA, ReqSHA, ReqSPA)

C12_Witness ==
    /\ IsARPCall
    /\ arpCall.failAt = 0
    /\ ReqOp = 1
    /\ ReqSHA = <<2, 0, 0, 0, 0, 2>>
    /\ ReqSPA = <<10, 0, 0, 6>>
    /\ ReqTPA = <<10, 0, 0, 5>>
    /\ ReqTPA \in DOMAIN arpDb
    /\ arpDb[ReqTPA] = <<170, 187, 204, 221, 238, 255>>
    /\ arpCall.ingress.number = [hi |-> 0, lo |-> 7]
    /\ Len(Sends) = 1
    /\ Sends[1].msg.action.output.value = [hi |-> 0, lo |-> 7]
    /\ SubSeq(Sends[1].msg.data, 1, 6) = <<2, 0, 0, 0, 0, 2>>

\* The directory holds, for the announced address, the hardware address
\* the announcement carries.
ValidAnnouncement ==
    /\ ReqSPA \in DOMAIN arpDb
    /\ arpDb[ReqSPA] = ReqSHA

\* C13: an ARP announcement (operation 1, sender and target protocol
\* address equal, target hardware address zero) whose directory lookup
\* answers is forwarded unchanged to the next stage exactly when the
\* directory has a hardware address for the announced address and it is the
\* announcement's sender hardware address; otherwise it is dropped: not
\* forwarded, nothing sent, nil returned.
C13_AnnouncementFilter ==
    (/\ IsARPCall
     /\ ReqOp = 1
     /\ AnnouncementShaped
     /\ arpCall.failAt # 1)
    => /\ Sends = <<>>
       /\ ValidAnnouncement => /\ Forwards = <<ThisEvent>>
                               /\ arpCall.ret = arpCall.nextRet
       /\ ~ValidAnnouncement => /\ Forwards = <<>>
                                /\ arpCall.ret = ""

C13_Witness ==
    /\ IsARPCall
    /\ ReqOp = 1
    /\ AnnouncementShaped
    /\ arpCall.failAt = 0
    /\ ValidAnnouncement
    /\ Forwards = <<ThisEvent>>
    /\ Sends = <<>>

\* C14: an ARP request whose target address is absent from the directory
\* (the lookup answering so) sends nothing, is not forwarded to the next
\* stage and returns nil.
C14_UnknownTargetDropped ==
    (/\ IsARPCall
     /\ ReqOp = 1
     /\ ReqTPA \notin DOMAIN arpDb
     /\ arpCall.failAt # 1)
    => /\ Sends = <<>>
       /\ Forwards = <<>>
       /\ arpCall.ret = ""

C14_Witness ==
    /\ IsARPCall
    /\ ReqOp = 1
    /\ ~AnnouncementShaped
    /\ DOMAIN arpDb # {}
    /\ ReqTPA \notin DOMAIN arpDb
    /\ arpCall.failAt = 0
    /\ Lookups = <<[kind |-> "lookup", ip |-> ReqTPA]>>
    /\ Sends = <<>>
    /\ Forwards = <<>>
    /\ arpCall.ret = ""

\* C15: every frame whose type is not 0x0806 is forwarded to the next
\* stage with the same finder, ingress port and frame; the directory is not
\* looked up, nothing is sent, and what the next stage returns is returned.
C15_NonARPForwarded ==
    (arpCall.handler = "OnPacketIn" /\ arpCall.eth.Type # 2054)
    => /\ arpCall.trace = <<ThisEvent>>
       /\ arpCall.ret = arpCall.nextRet

C15_Witness ==
    /\ arpCall.handler = "OnPacketIn"
    /\ arpCall.eth.Type = 34525
    /\ Len(arpCall.eth.Payload) = 28
    /\ arpCall.nextRet = "next stage failed"
    /\ arpCall.ret = "next stage failed"
    /\ Forwards = <<ThisEvent>>
    /\ Lookups = <<>>

\* C16: every ARP packet whose operation is not 1 (request), an
\* announcement-shaped packet with the reply operation included, is
\* dropped: no directory lookup, nothing sent, not forwarded, nil returned.
C16_NonRequestDropped ==
    (IsARPCall /\ ReqOp # 1)
    => /\ arpCall.trace = <<>>
       /\ arpCall.ret = ""

C16_Witness ==
    /\ IsARPCall
    /\ ReqOp = 2
    /\ AnnouncementShaped
    /\ ValidAnnouncement
    /\ arpCall.failAt = 0
    /\ arpCall.trace = <<>>
    /\ arpCall.ret = ""

\* C17: the stage after ProxyARP sees a packet-arrival event at most once,
\* and only when the frame is not ARP or is a valid ARP announcement; an
\* event ProxyARP ends (dropped, answered, or failed in decoding, lookup,
\* construction or sending) is never seen by it; ProxyARP never both sends
\* and forwards.
C17_ForwardAtMostOnce ==
    arpCall.handler = "OnPacketIn" =>
        /\ Len(Forwards) <= 1
        /\ Forwards # <<>> =>
              /\ Forwards = <<ThisEvent>>
              /\ Sends = <<>>
              /\ arpCall.ret = arpCall.nextRet
              /\ \/ arpCall.eth.Type # 2054
                 \/ IsARPCall /\ ReqOp = 1 /\ AnnouncementShaped /\ ValidAnnouncement
        /\ Sends # <<>> => Forwards = <<>>
        /\ (arpCall.eth.Type = 2054 /\ ~IsARPCall) =>
              Forwards = <<>> /\ arpCall.ret # ""
        /\ (IsARPCall /\ (ReqOp # 1 \/ ~AnnouncementShaped)) => Forwards = <<>>
        /\ (IsARPCall /\ ReqOp = 1 /\ arpCall.failAt = 1) =>
              Forwards = <<>> /\ arpCall.ret # ""
        /\ (IsARPCall /\ ReqOp = 1 /\ ~AnnouncementShaped /\ ReqTPA \in DOMAIN arpDb
              /\ arpCall.failAt \in 2..6) =>
              arpCall.trace = Lookups /\ arpCall.ret # ""

C17_Witness ==
    /\ IsARPCall
    /\ ReqOp = 1
    /\ ~AnnouncementShaped
    /\ ReqTPA \in DOMAIN arpDb
    /\ arpCall.failAt = 6
    /\ arpCall.nextRet = ""
    /\ arpCall.ret = "SendMessage"
    /\ Len(Lookups) = 1
    /\ Sends = <<>>
    /\ Forwards = <<>>

\* C18: OnDeviceUp sends exactly one packet-out on the device, flooded,
\* carrying a gratuitous ARP announcement (an ARP request whose sender and
\* target protocol addresses are equal, in a frame to the broadcast
\* address) and only then forwards the event to the next stage; when
\* building or sending the announcement fails, the event is not forwarded
\* and an error is returned.
C18_AnnounceThenForward ==
    arpCall.handler = "OnDeviceUp" =>
        /\ arpCall.failAt \notin 1..5 =>
              /\ Len(arpCall.trace) = 2
              /\ arpCall.trace[1].kind = "send"
              /\ arpCall.trace[1].device = arpCall.ingress.device
              /\ arpCall.trace[1].msg.type = "PACKET_OUT"
              /\ arpCall.trace[1].msg.inPort.kind = "controller"
              /\ arpCall.trace[1].msg.action.output.kind = "flood"
              /\ LET data == arpCall.trace[1].msg.data IN
                 /\ Len(data) = 42
                 /\ SubSeq(data, 1, 6) = <<255, 255, 255, 255, 255, 255>>
                 /\ SubSeq(data, 13, 14) = <<8, 6>>
                 /\ SubSeq(data, 21, 22) = <<0, 1>>
                 /\ SubSeq(data, 29, 32) = SubSeq(data, 39, 42)
                 /\ SubSeq(data, 7, 12) = SubSeq(data, 23, 28)
              /\ arpCall.trace[2] = [kind |-> "forward", event |-> "OnDeviceUp",
                                     args |-> <<Finder, arpCall.ingress.device>>]
              /\ arpCall.ret = arpCall.nextRet
        /\ arpCall.failAt \in 1..5 =>
              /\ Forwards = <<>>
              /\ Sends = <<>>
              /\ arpCall.ret # ""
              /\ arpCall.ret # arpCall.nextRet

C18_Witness ==
    /\ arpCall.handler = "OnDeviceUp"
    /\ arpCall.failAt = 0
    /\ arpCall.ingress.device = "dpid-2"
    /\ Len(arpCall.trace) = 2
    /\ arpCall.trace[1].kind = "send"
    /\ arpCall.trace[1].device = "dpid-2"
    /\ SubSeq(arpCall.trace[1].msg.data, 29, 32) = <<223, 130, 122, 1>>
    /\ arpCall.trace[2].kind = "forward"

====
